---- MODULE Spec2Model ----
(***************************************************************************)
(* A model of sync_ssd.py (src/main.py): the single-instance lock file,    *)
(* the metadata diff, the retention purge and the per-pair backup-then-    *)
(* mutate loop.  The specifications share the variables:                   *)
(*   SpecLock   main()'s invocations racing for the lock file              *)
(*   SpecDiff   build_diff applied to two snapshots                        *)
(*   SpecPurge  purge_old_backups applied to a backup directory            *)
(*   Spec       process_pair on one pair, one file-system call per step    *)
(*   SpecMain   one invocation of main(): every pair in turn, with the     *)
(*              clock moving on and pairs that may share a name            *)
(***************************************************************************)
EXTENDS Integers, Sequences, FiniteSets, TLC

(***************************************************************************)
(* Bounds of the model.                                                    *)
(***************************************************************************)
\* invocations of main() racing for one lock path
NumInvocations == 3
\* pairs listed in the configuration
NumPairs == 2
\* relative paths are "a", "a.tmp", "a.tmp.tmp", ...: path k is the name "a"
\* followed by k ".tmp" suffixes (sorted order is the order of k); the trees
\* hold files at paths 0 .. MaxPath when a run starts
MaxPath == 1
\* length in bytes of a file when a run starts
FileLen == 2
\* the clock reads 0 .. MaxSec model seconds; backup folders are stamped
\* with a second of that range
MaxSec == 3
\* model seconds in a day
SecondsPerDay == 2
\* retention_days is 0 .. MaxRetention
MaxRetention == 1
\* file-system calls of one run that raise for a reason outside the program
\* (disk full, permission denied)
MaxFaults == 1

\* FileMeta.newer_than's tolerance, 1e-3 s; mtimes are counted in milliseconds
Tolerance == 1

VARIABLES
    \* ---- single_instance_lock / main ----
    lockFile,      \* 0: no lock file; otherwise the pid written into it
    ipc,           \* per invocation: where it is in main()
    outcome,       \* per invocation: how its run ended
    pairsDone,     \* per invocation: number of process_pair calls made
    \* ---- configuration and clock ----
    delete_policy, \* cfg["delete_policy"]
    retention,     \* cfg["retention_days"]
    dry,           \* args.dry_run
    now,           \* datetime.now(): [sec, usec], usec 0 or not
    pair_names,    \* per pair of cfg["pairs"]: the name of its ssd directory
    others,        \* backup_root / name for the names other than the
                   \* current pair's: name -> children
    \* ---- file system ----
    local_root,    \* files under local_root: path -> file
    ssd_root,      \* files under ssd_root
    bdir,          \* children of backup_root / pair_name: name -> child
    \* ---- process_pair ----
    pc,            \* position in process_pair
    todo,          \* purge_old_backups: children iterdir() has yet to yield
    local_meta,    \* scan_tree(local_root): rel_path -> FileMeta
    ssd_meta,      \* scan_tree(ssd_root)
    plan,          \* build_diff's result: a sequence of <<action, rel>>
    ts_folder,     \* name of the run's backup folder
    idx,           \* index in plan of the action being (or next to be) run
    failed,        \* indices of the actions whose exception was caught
    interrupted,   \* KeyboardInterrupt (or a crash) stopped the run
    faults,        \* file-system calls that raised for an outside reason
    \* ---- history, for stating the properties ----
    init_fs,       \* local, ssd and bdir when process_pair was called
    start_fs,      \* local, ssd and the run's backup files at action start
    attempted,     \* indices of the plan's actions in the order the loop
                   \* entered their try block, for this process_pair call
    written        \* the backup copies this invocation has completed:
                   \* [name, folder, rel, file]

lockVars == <<lockFile, ipc, outcome, pairsDone>>
cfgVars  == <<delete_policy, retention, dry, now, pair_names, others>>
fsVars   == <<local_root, ssd_root, bdir>>
runVars  == <<pc, todo, local_meta, ssd_meta, plan, ts_folder, idx, failed,
              interrupted, faults>>
histVars == <<init_fs, start_fs, attempted, written>>
pairVars == <<cfgVars, fsVars, runVars, histVars>>

vars == <<lockVars, pairVars>>

(***************************************************************************)
(* DATA.  Files, trees, FileMeta (lines 64-72), the backup directory.      *)
(***************************************************************************)
Policies == {"safe", "mirror", "sync"}

\* every name a tree can hold: the paths, and the temporary sibling of the last
Names == 0 .. MaxPath + 1
Paths == 0 .. MaxPath

\* st_mtime values.  A file on the SSD side starts at BaseTime; a local file
\* starts anywhere in MTimes, which puts it beyond the tolerance before,
\* within the tolerance before, at, within the tolerance after and beyond
\* the tolerance after its SSD counterpart
BaseTime == Tolerance + 1
MTimes == 0 .. 2 * BaseTime
\* st_mtime of a file the run has just created: later than every MTimes
FreshTime == 3 * BaseTime

NoFile == [exists |-> FALSE, data |-> <<>>, mtime |-> 0]
File(data, mtime) == [exists |-> TRUE, data |-> data, mtime |-> mtime]
EmptyTree == [p \in Names |-> NoFile]

\* the bytes a file starts with name its side and its path, so that no two
\* files of the start state hold the same bytes
OrigData(side, p) ==
    [i \in 1 .. FileLen |-> IF side = "local" THEN 2 * p + 1 ELSE 2 * p + 2]
\* how a path starts: on neither side, on one side, or on both with the
\* local mtime anywhere around the SSD mtime
Shapes ==
    {[l |-> FALSE, s |-> FALSE, lt |-> BaseTime],
     [l |-> TRUE, s |-> FALSE, lt |-> BaseTime],
     [l |-> FALSE, s |-> TRUE, lt |-> BaseTime]}
        \cup {[l |-> TRUE, s |-> TRUE, lt |-> t] : t \in MTimes}
LocalTree(shape) ==
    [p \in Names |->
        IF p \in Paths /\ shape[p].l
        THEN File(OrigData("local", p), shape[p].lt) ELSE NoFile]
SsdTree(shape) ==
    [p \in Names |->
        IF p \in Paths /\ shape[p].s
        THEN File(OrigData("ssd", p), BaseTime) ELSE NoFile]

\* class FileMeta: size and mtime
FileMeta(size, mtime) == [size |-> size, mtime |-> mtime]

\* a faulty variant: a difference of exactly the tolerance counts as newer
newer_than_inclusive(self, other) == self.mtime >= other.mtime + Tolerance
\* FileMeta.newer_than, line 72: self.mtime > other.mtime + 1e-3
newer_than(self, other) == self.mtime > other.mtime + Tolerance

\* scan_tree, lines 75-84: every regular file under the root, by relative path
scan_tree(root) ==
    [rel \in {p \in Names : root[p].exists} |->
        FileMeta(Len(root[rel].data), root[rel].mtime)]

\* names of the children of backup_root / pair_name: strftime("%Y%m%d-%H%M%S")
\* of a model second, or a name strptime rejects
Stamp(sec) == <<"stamp", sec>>
OtherName == <<"other", 0>>
ChildNames == {Stamp(s) : s \in 0 .. MaxSec} \cup {OtherName}
NoFolder == <<"none", 0>>

\* a child is absent, a directory (with the backup copies in it) or a plain file
NoChild == [kind |-> "none", files |-> EmptyTree]
Dir(files) == [kind |-> "dir", files |-> files]
PlainFile == [kind |-> "file", files |-> EmptyTree]

Clock == [sec : 0 .. MaxSec, usec : {0, 1}]

\* datetime.strptime(name, "%Y%m%d-%H%M%S") succeeds
Parses(name) == name[1] = "stamp"
\* its value, in model seconds
strptime(name) == name[2]
\* datetime.now().strftime("%Y%m%d-%H%M%S"): the microseconds are dropped
strftime(t) == Stamp(t.sec)

(***************************************************************************)
(* LOCK FILE.  single_instance_lock (lines 46-60) and main (244-254).      *)
(***************************************************************************)
Invocations == 1 .. NumInvocations

\* no file at the lock path
NoLock == 0
\* pid found in a lock file left behind by a run that was killed
StalePid == NumInvocations + 1

\* os.open(lock_path, O_CREAT | O_EXCL | O_RDWR) succeeds only when no file
\* is there
OpenExclSucceeds == lockFile = NoLock

\* a faulty variant: the body also runs after a failed open
InLockedRegionOrFailed(i) == ipc[i] \in {"locked", "open_failed"}
\* the body of the with statement runs between the yield and the finally
InLockedRegion(i) == ipc[i] = "locked"

\* a faulty variant: the unlink is reached only when the body ends normally
LockAfterFinallySkippedOnError(i) ==
    IF outcome[i] = "normal" THEN NoLock ELSE lockFile
\* finally: lock_path.unlink(), FileNotFoundError swallowed: whatever file is
\* at the lock path is gone, however the body was left
LockAfterFinally(i) == NoLock

LockStart ==
    /\ lockFile \in {NoLock, StalePid}
    /\ ipc = [i \in Invocations |-> "start"]
    /\ outcome = [i \in Invocations |-> "running"]
    /\ pairsDone = [i \in Invocations |-> 0]

\* try: fd = os.open(...O_EXCL...); write the pid; close; yield
AcquireLock(i) ==
    /\ ipc[i] = "start"
    /\ OpenExclSucceeds
    /\ lockFile' = i
    /\ ipc' = [ipc EXCEPT ![i] = "locked"]
    /\ UNCHANGED <<outcome, pairsDone, pairVars>>

\* os.open raises FileExistsError inside the try: control goes to the finally
OpenFails(i) ==
    /\ ipc[i] = "start"
    /\ ~OpenExclSucceeds
    /\ ipc' = [ipc EXCEPT ![i] = "open_failed"]
    /\ outcome' = [outcome EXCEPT ![i] = "lock_exists"]
    /\ UNCHANGED <<lockFile, pairsDone, pairVars>>

\* for pair in cfg["pairs"]: process_pair(...)
CallProcessPair(i) ==
    /\ InLockedRegion(i)
    /\ pairsDone[i] < NumPairs
    /\ pairsDone' = [pairsDone EXCEPT ![i] = @ + 1]
    /\ UNCHANGED <<lockFile, ipc, outcome, pairVars>>

\* the with body is left: after the last pair, by an exception escaping
\* process_pair, or by KeyboardInterrupt
LeaveBody(i, how) ==
    /\ InLockedRegion(i)
    /\ how = "normal" => pairsDone[i] = NumPairs
    /\ ipc' = [ipc EXCEPT ![i] = "finally"]
    /\ outcome' = [outcome EXCEPT ![i] = how]
    /\ UNCHANGED <<lockFile, pairsDone, pairVars>>

\* the finally clause, reached after the body and after a failed open alike
FinallyUnlink(i) ==
    /\ ipc[i] \in {"finally", "open_failed"}
    /\ lockFile' = LockAfterFinally(i)
    /\ ipc' = [ipc EXCEPT ![i] = "done"]
    /\ UNCHANGED <<outcome, pairsDone, pairVars>>

LockNext ==
    \E i \in Invocations :
        \/ AcquireLock(i)
        \/ OpenFails(i)
        \/ CallProcessPair(i)
        \/ \E how \in {"normal", "error", "interrupt"} : LeaveBody(i, how)
        \/ FinallyUnlink(i)

(***************************************************************************)
(* DIFF.  build_diff, lines 90-113.                                        *)
(***************************************************************************)
\* a faulty variant: the paths are taken in another order than ascending
RECURSIVE unsorted(_)
unsorted(S) ==
    IF S = {} THEN <<>>
    ELSE LET m == CHOOSE x \in S : \A y \in S : x >= y
         IN  <<m>> \o unsorted(S \ {m})
\* sorted(all_paths): ascending; path k sorts before path k + 1 because a
\* name sorts before the same name with ".tmp" appended
RECURSIVE sorted(_)
sorted(S) ==
    IF S = {} THEN <<>>
    ELSE LET m == CHOOSE x \in S : \A y \in S : x <= y
         IN  <<m>> \o sorted(S \ {m})

\* a faulty variant: the mirror and sync policies exchanged
ssd_only_action_swapped(rel, policy) ==
    IF policy = "mirror" THEN << <<"COPY_SSD_TO_LOCAL", rel>> >>
    ELSE IF policy = "sync" THEN << <<"DELETE_SSD", rel>> >>
    ELSE <<>>
\* lines 98-104: a path only on the SSD
ssd_only_action(rel, policy) ==
    IF policy = "mirror" THEN << <<"DELETE_SSD", rel>> >>
    ELSE IF policy = "sync" THEN << <<"COPY_SSD_TO_LOCAL", rel>> >>
    ELSE <<>>

\* lines 105-112: a path on both sides
both_present_action(rel, l_meta, s_meta) ==
    IF newer_than(l_meta, s_meta) THEN << <<"UPDATE_SSD", rel>> >>
    ELSE IF newer_than(s_meta, l_meta) THEN << <<"COPY_SSD_TO_LOCAL", rel>> >>
    ELSE <<>>

\* the body of the for loop, lines 94-112: what is appended for rel
actions_for(rel, lmeta, smeta, policy) ==
    LET in_local == rel \in DOMAIN lmeta
        in_ssd   == rel \in DOMAIN smeta
    IN  IF in_local /\ ~in_ssd THEN << <<"COPY_LOCAL_TO_SSD", rel>> >>
        ELSE IF in_ssd /\ ~in_local THEN ssd_only_action(rel, policy)
        ELSE both_present_action(rel, lmeta[rel], smeta[rel])

RECURSIVE diff_loop(_, _, _, _)
diff_loop(rels, lmeta, smeta, policy) ==
    IF rels = <<>> THEN <<>>
    ELSE actions_for(Head(rels), lmeta, smeta, policy)
            \o diff_loop(Tail(rels), lmeta, smeta, policy)

build_diff(lmeta, smeta, policy) ==
    diff_loop(sorted(DOMAIN lmeta \cup DOMAIN smeta), lmeta, smeta, policy)

(***************************************************************************)
(* RETENTION.  purge_old_backups, lines 141-152.                           *)
(***************************************************************************)
\* line 150: now - ts > timedelta(days=retention_days)
Older(name) ==
    LET elapsed == now.sec - strptime(name)
        limit   == retention * SecondsPerDay
    IN  elapsed > limit \/ (elapsed = limit /\ now.usec > 0)

(***************************************************************************)
(* PROCESS_PAIR, lines 172-211, one file-system call per step.             *)
(***************************************************************************)
Running == ~interrupted

\* a faulty variant: the dry-run flag is not looked at
IsDryIgnored == FALSE
\* line 189: if dry
IsDry == dry

\* a faulty variant: UPDATE_SSD overwrites without a backup
NeedsBackupButUpdate(action) == action \in {"DELETE_SSD", "COPY_LOCAL_TO_SSD"}
\* a faulty variant: every action backs the SSD file up first
NeedsBackupAlways(action) == TRUE
\* line 198: the actions that back the SSD file up first
NeedsBackup(action) == action \in {"UPDATE_SSD", "DELETE_SSD", "COPY_LOCAL_TO_SSD"}

\* a faulty variant: the copy is written straight to the destination
TmpNameInPlace(rel) == rel
\* line 130: tmp = dst.with_suffix(dst.suffix + ".tmp")
TmpName(rel) == rel + 1

\* line 173: pair_name = ssd_root.name, for the pair main's loop is at
pair_name == pair_names[pairsDone[1]]
\* the backup copy ts_folder / rel of this pair, holding file
BackupCopy(rel, file) ==
    [name |-> pair_name, folder |-> ts_folder, rel |-> rel, file |-> file]

\* the run's backup folder: ts_folder / rel for every rel
RunFiles == IF ts_folder = NoFolder THEN EmptyTree ELSE bdir[ts_folder].files

\* the action the loop is at, and the trees safe_copy reads and writes
Action == plan[idx][1]
Rel == plan[idx][2]
SrcTree == IF Action = "COPY_SSD_TO_LOCAL" THEN ssd_root ELSE local_root
DstTree == IF Action = "COPY_SSD_TO_LOCAL" THEN local_root ELSE ssd_root
WriteDst(tree) ==
    IF Action = "COPY_SSD_TO_LOCAL"
    THEN local_root' = tree /\ UNCHANGED ssd_root
    ELSE ssd_root' = tree /\ UNCHANGED local_root

\* what an interrupted shutil.copy2 of file f can leave behind: the
\* destination opened for writing and some of the bytes written
PartialCopies(f) ==
    {File(SubSeq(f.data, 1, k), FreshTime) : k \in 0 .. Len(f.data) - 1}

\* line 177 / lines 142-145: nothing to do without the directory; otherwise
\* iterdir() over its children
PurgeList ==
    /\ Running /\ pc = "purge"
    /\ LET children == {c \in ChildNames : bdir[c].kind # "none"}
       IN  /\ todo' = children
           /\ pc' = IF children = {} THEN "scan" ELSE "purge_iter"
    /\ UNCHANGED <<lockVars, cfgVars, fsVars, local_meta, ssd_meta, plan,
                   ts_folder, idx, failed, interrupted, faults, histVars>>

\* lines 146-152: one child.  A name that does not parse is skipped; an old
\* one is handed to shutil.rmtree, which raises for a child that is no
\* directory, and nothing in process_pair or main catches that
PurgeChild(c) ==
    /\ Running /\ pc = "purge_iter" /\ c \in todo
    /\ IF Parses(c) /\ Older(c)
       THEN IF bdir[c].kind = "dir"
            THEN /\ bdir' = [bdir EXCEPT ![c] = NoChild]
                 /\ todo' = todo \ {c}
                 /\ UNCHANGED pc
            ELSE /\ pc' = "raised"
                 /\ UNCHANGED <<bdir, todo>>
       ELSE /\ todo' = todo \ {c}
            /\ UNCHANGED <<bdir, pc>>
    /\ UNCHANGED <<lockVars, cfgVars, local_root, ssd_root, local_meta, ssd_meta,
                   plan, ts_folder, idx, failed, interrupted, faults, histVars>>

\* iterdir() is exhausted: purge_old_backups returns
PurgeReturn ==
    /\ Running /\ pc = "purge_iter" /\ todo = {}
    /\ pc' = "scan"
    /\ UNCHANGED <<lockVars, cfgVars, fsVars, todo, local_meta, ssd_meta, plan,
                   ts_folder, idx, failed, interrupted, faults, histVars>>

\* lines 180-181
ScanTrees ==
    /\ Running /\ pc = "scan"
    /\ local_meta' = scan_tree(local_root)
    /\ ssd_meta' = scan_tree(ssd_root)
    /\ pc' = "diff"
    /\ UNCHANGED <<lockVars, cfgVars, fsVars, todo, plan, ts_folder, idx,
                   failed, interrupted, faults, histVars>>

\* line 184
BuildDiff ==
    /\ Running /\ pc = "diff"
    /\ plan' = build_diff(local_meta, ssd_meta, delete_policy)
    /\ pc' = "dry_check"
    /\ UNCHANGED <<lockVars, cfgVars, fsVars, todo, local_meta, ssd_meta,
                   ts_folder, idx, failed, interrupted, faults, histVars>>

\* lines 189-190
DryReturn ==
    /\ Running /\ pc = "dry_check" /\ IsDry
    /\ pc' = "return"
    /\ UNCHANGED <<lockVars, cfgVars, fsVars, todo, local_meta, ssd_meta, plan,
                   ts_folder, idx, failed, interrupted, faults, histVars>>

\* line 192, make_ts_folder (lines 117-121): mkdir(parents=True,
\* exist_ok=True) reuses a directory of that name and raises when the name
\* is taken by a plain file
MakeTsFolder ==
    /\ Running /\ pc = "dry_check" /\ ~IsDry
    /\ LET folder == strftime(now)
       IN  IF bdir[folder].kind = "file"
           THEN /\ pc' = "raised"
                /\ UNCHANGED <<bdir, ts_folder>>
           ELSE /\ bdir' = IF bdir[folder].kind = "dir" THEN bdir
                           ELSE [bdir EXCEPT ![folder] = Dir(EmptyTree)]
                /\ ts_folder' = folder
                /\ pc' = "loop"
    /\ UNCHANGED <<lockVars, cfgVars, local_root, ssd_root, todo, local_meta,
                   ssd_meta, plan, idx, failed, interrupted, faults, histVars>>

\* line 194: the for loop takes the next action, or process_pair returns
ForNext ==
    /\ Running /\ pc = "loop"
    /\ IF idx > Len(plan)
       THEN pc' = "return" /\ UNCHANGED <<start_fs, attempted>>
       ELSE /\ pc' = "backup"
            /\ start_fs' = [local |-> local_root, ssd |-> ssd_root, bk |-> RunFiles]
            /\ attempted' = Append(attempted, idx)
    /\ UNCHANGED <<lockVars, cfgVars, fsVars, todo, local_meta, ssd_meta, plan,
                   ts_folder, idx, failed, interrupted, faults, init_fs, written>>

\* the action is over: back to the head of the loop
Completed == idx' = idx + 1 /\ pc' = "loop" /\ UNCHANGED failed
\* a faulty variant: the exception ends the loop over the plan
CaughtEndsLoop == idx' = idx + 1 /\ pc' = "return" /\ failed' = failed \cup {idx}
\* lines 210-211: the exception is caught and logged
Caught == idx' = idx + 1 /\ pc' = "loop" /\ failed' = failed \cup {idx}

\* lines 198-201, copy_for_backup (lines 124-126)
Backup ==
    /\ Running /\ pc = "backup"
    /\ IF NeedsBackup(Action) /\ ssd_root[Rel].exists
       THEN /\ bdir' = [bdir EXCEPT ![ts_folder].files[Rel] = ssd_root[Rel]]
            /\ written' = written \cup {BackupCopy(Rel, ssd_root[Rel])}
       ELSE UNCHANGED <<bdir, written>>
    /\ pc' = IF Action = "DELETE_SSD" THEN "delete" ELSE "copy_open"
    /\ UNCHANGED <<lockVars, cfgVars, local_root, ssd_root, todo, local_meta,
                   ssd_meta, plan, ts_folder, idx, failed, interrupted, faults,
                   init_fs, start_fs, attempted>>

\* a faulty variant: the exception of copy_for_backup is logged and the
\* action goes on to its copy or delete
BackupFaultGoesOn ==
    /\ Running /\ pc = "backup" /\ faults < MaxFaults
    /\ NeedsBackup(Action) /\ ssd_root[Rel].exists
    /\ \E left \in {RunFiles[Rel]} \cup PartialCopies(ssd_root[Rel]) :
          bdir' = [bdir EXCEPT ![ts_folder].files[Rel] = left]
    /\ failed' = failed \cup {idx}
    /\ pc' = IF Action = "DELETE_SSD" THEN "delete" ELSE "copy_open"
    /\ faults' = faults + 1
    /\ UNCHANGED <<lockVars, cfgVars, local_root, ssd_root, todo, local_meta,
                   ssd_meta, plan, ts_folder, idx, interrupted, histVars>>
\* copy_for_backup raises (disk full, permission denied): the copy in the
\* backup folder is missing or incomplete, and the action is given up
BackupFault ==
    /\ Running /\ pc = "backup" /\ faults < MaxFaults
    /\ NeedsBackup(Action) /\ ssd_root[Rel].exists
    /\ \E left \in {RunFiles[Rel]} \cup PartialCopies(ssd_root[Rel]) :
          bdir' = [bdir EXCEPT ![ts_folder].files[Rel] = left]
    /\ Caught /\ faults' = faults + 1
    /\ UNCHANGED <<lockVars, cfgVars, local_root, ssd_root, todo, local_meta,
                   ssd_meta, plan, ts_folder, interrupted, histVars>>

\* safe_copy, lines 130-132: shutil.copy2 opens the source (and raises when
\* it is missing), then creates or truncates tmp
CopyOpen ==
    /\ Running /\ pc = "copy_open"
    /\ IF SrcTree[Rel].exists
       THEN /\ WriteDst([DstTree EXCEPT ![TmpName(Rel)] = File(<<>>, FreshTime)])
            /\ pc' = IF SrcTree[Rel].data = <<>> THEN "copy_stat" ELSE "copy_write"
            /\ UNCHANGED <<idx, failed>>
       ELSE /\ Caught
            /\ UNCHANGED <<local_root, ssd_root>>
    /\ UNCHANGED <<lockVars, cfgVars, bdir, todo, local_meta, ssd_meta, plan,
                   ts_folder, interrupted, faults, histVars>>

\* line 132: shutil.copy2 writes the next chunk (a byte here) to tmp
CopyWrite ==
    /\ Running /\ pc = "copy_write"
    /\ LET tmp  == TmpName(Rel)
           n    == Len(DstTree[tmp].data)
           more == Append(DstTree[tmp].data, SrcTree[Rel].data[n + 1])
       IN  /\ WriteDst([DstTree EXCEPT ![tmp].data = more])
           /\ pc' = IF Len(more) = Len(SrcTree[Rel].data)
                    THEN "copy_stat" ELSE "copy_write"
    /\ UNCHANGED <<lockVars, cfgVars, bdir, todo, local_meta, ssd_meta, plan,
                   ts_folder, idx, failed, interrupted, faults, histVars>>

\* line 132: shutil.copy2 ends with copystat: tmp takes the source's mtime
CopyStat ==
    /\ Running /\ pc = "copy_stat"
    /\ WriteDst([DstTree EXCEPT ![TmpName(Rel)].mtime = SrcTree[Rel].mtime])
    /\ pc' = "copy_replace"
    /\ UNCHANGED <<lockVars, cfgVars, bdir, todo, local_meta, ssd_meta, plan,
                   ts_folder, idx, failed, interrupted, faults, histVars>>

\* line 133: os.replace(tmp, dst)
CopyReplace ==
    /\ Running /\ pc = "copy_replace"
    /\ LET tmp == TmpName(Rel)
       IN  WriteDst([p \in Names |->
                        IF p = Rel THEN DstTree[tmp]
                        ELSE IF p = tmp THEN NoFile
                        ELSE DstTree[p]])
    /\ Completed
    /\ UNCHANGED <<lockVars, cfgVars, bdir, todo, local_meta, ssd_meta, plan,
                   ts_folder, interrupted, faults, histVars>>

\* lines 206-207, delete_path (lines 136-137): unlink raises when the file
\* is not there
Delete ==
    /\ Running /\ pc = "delete"
    /\ IF ssd_root[Rel].exists
       THEN ssd_root' = [ssd_root EXCEPT ![Rel] = NoFile] /\ Completed
       ELSE UNCHANGED ssd_root /\ Caught
    /\ UNCHANGED <<lockVars, cfgVars, local_root, bdir, todo, local_meta,
                   ssd_meta, plan, ts_folder, interrupted, faults, histVars>>

\* a file-system call of the action raises (disk full, permission denied):
\* lines 210-211 catch it, what was written so far stays
Fault ==
    /\ Running /\ faults < MaxFaults
    /\ pc \in {"copy_open", "copy_write", "copy_stat", "copy_replace", "delete"}
    /\ Caught /\ faults' = faults + 1
    /\ UNCHANGED <<lockVars, cfgVars, fsVars, todo, local_meta, ssd_meta, plan,
                   ts_folder, interrupted, histVars>>

\* KeyboardInterrupt, or the process dies: nothing more is done
Interrupt ==
    /\ Running /\ pc \notin {"return", "raised"}
    /\ interrupted' = TRUE
    /\ UNCHANGED <<lockVars, cfgVars, fsVars, pc, todo, local_meta, ssd_meta,
                   plan, ts_folder, idx, failed, faults, histVars>>

(***************************************************************************)
(* SPECIFICATIONS.                                                         *)
(***************************************************************************)
\* the lock variables while one invocation is inside process_pair
LockHeld ==
    /\ lockFile = 1
    /\ ipc = [i \in Invocations |-> IF i = 1 THEN "locked" ELSE "start"]
    /\ outcome = [i \in Invocations |-> "running"]
    /\ pairsDone = [i \in Invocations |-> IF i = 1 THEN 1 ELSE 0]

\* process_pair is called: nothing scanned, planned or executed yet
Called(at) ==
    /\ pc = at
    /\ todo = {}
    /\ ts_folder = NoFolder
    /\ idx = 1
    /\ failed = {}
    /\ interrupted = FALSE
    /\ faults = 0
    /\ init_fs = [local |-> local_root, ssd |-> ssd_root, bdir |-> bdir]
    /\ start_fs = [local |-> local_root, ssd |-> ssd_root, bk |-> EmptyTree]
    /\ attempted = <<>>
    /\ written = {}

\* names of the pairs' ssd directories: two pairs of the configuration may
\* share one
PairNames == 1 .. NumPairs
\* every pair has a name of its own, and the other names' backup directories
\* are not looked at
OwnNames ==
    /\ pair_names = [j \in 1 .. NumPairs |-> j]
    /\ others = [n \in PairNames |-> [c \in ChildNames |-> NoChild]]

\* a backup directory with one folder of an earlier run and one foreign child
StartBdir ==
    [c \in ChildNames |->
        IF c \in {Stamp(0), OtherName} THEN Dir(EmptyTree) ELSE NoChild]

Init ==
    /\ LockHeld
    /\ delete_policy \in Policies
    /\ retention = MaxRetention
    /\ dry \in BOOLEAN
    /\ now = [sec |-> MaxSec, usec |-> 1]
    /\ OwnNames
    /\ \E shape \in [Paths -> Shapes] :
          local_root = LocalTree(shape) /\ ssd_root = SsdTree(shape)
    /\ bdir = StartBdir
    /\ local_meta = <<>> /\ ssd_meta = <<>> /\ plan = <<>>
    /\ Called("purge")

Next ==
    \/ PurgeList
    \/ \E c \in ChildNames : PurgeChild(c)
    \/ PurgeReturn
    \/ ScanTrees
    \/ BuildDiff
    \/ DryReturn
    \/ MakeTsFolder
    \/ ForNext
    \/ Backup
    \/ BackupFault
    \/ CopyOpen
    \/ CopyWrite
    \/ CopyStat
    \/ CopyReplace
    \/ Delete
    \/ Fault
    \/ Interrupt

Spec == Init /\ [][Next]_vars

\* ---- the lock ----
PairIdle ==
    /\ delete_policy = "safe" /\ retention = 0 /\ dry = TRUE
    /\ now = [sec |-> 0, usec |-> 0]
    /\ OwnNames
    /\ local_root = EmptyTree /\ ssd_root = EmptyTree
    /\ bdir = [c \in ChildNames |-> NoChild]
    /\ local_meta = <<>> /\ ssd_meta = <<>> /\ plan = <<>>
    /\ Called("idle")

LockInit == LockStart /\ PairIdle

SpecLock == LockInit /\ [][LockNext]_vars

\* ---- build_diff on its own ----
\* metadata of equal and of different sizes on the two sides
Sizes == {0, FileLen}
LocalMetas == {FileMeta(sz, t) : sz \in Sizes, t \in MTimes}
SsdMetas == {FileMeta(sz, BaseTime) : sz \in Sizes}
Snapshots(metas) == UNION {[D -> metas] : D \in SUBSET Paths}

DiffInit ==
    /\ LockHeld
    /\ delete_policy \in Policies
    /\ retention = 0 /\ dry = TRUE
    /\ now = [sec |-> 0, usec |-> 0]
    /\ OwnNames
    /\ local_root = EmptyTree /\ ssd_root = EmptyTree
    /\ bdir = [c \in ChildNames |-> NoChild]
    /\ local_meta \in Snapshots(LocalMetas)
    /\ ssd_meta \in Snapshots(SsdMetas)
    /\ plan = <<>>
    /\ Called("diff")

SpecDiff == DiffInit /\ [][BuildDiff]_vars

\* ---- purge_old_backups on its own ----
PurgeInit ==
    /\ LockHeld
    /\ delete_policy = "safe" /\ dry = TRUE
    /\ retention \in 0 .. MaxRetention
    /\ now \in {t \in Clock : t.sec = MaxSec}
    /\ OwnNames
    /\ local_root = EmptyTree /\ ssd_root = EmptyTree
    /\ bdir \in [ChildNames -> {NoChild, Dir(EmptyTree), PlainFile}]
    /\ local_meta = <<>> /\ ssd_meta = <<>> /\ plan = <<>>
    /\ Called("purge")

PurgeNext ==
    \/ PurgeList
    \/ \E c \in ChildNames : PurgeChild(c)
    \/ PurgeReturn

SpecPurge == PurgeInit /\ [][PurgeNext]_vars

\* ---- one invocation of main() that is not interrupted: the lock, every
\* ---- pair in turn, the release
\* the bytes the files of pair j start with: no two pairs hold the same
PairData(j, side, p) ==
    [i \in 1 .. FileLen |-> OrigData(side, p)[i] + 2 * (MaxPath + 1) * (j - 1)]
\* how every pair starts: the first path on the SSD only, the second on
\* both sides with the local file newer, the others on the local side only
MainShape ==
    [p \in Paths |->
        IF p = 0 THEN [l |-> FALSE, s |-> TRUE, lt |-> BaseTime]
        ELSE IF p = 1 THEN [l |-> TRUE, s |-> TRUE, lt |-> 2 * BaseTime]
        ELSE [l |-> TRUE, s |-> FALSE, lt |-> BaseTime]]
PairLocal(j) ==
    [p \in Names |->
        IF LocalTree(MainShape)[p].exists
        THEN File(PairData(j, "local", p), LocalTree(MainShape)[p].mtime)
        ELSE NoFile]
PairSsd(j) ==
    [p \in Names |->
        IF SsdTree(MainShape)[p].exists
        THEN File(PairData(j, "ssd", p), SsdTree(MainShape)[p].mtime)
        ELSE NoFile]

\* backup_root / n when the invocation starts: under the names other than
\* the first, the child with the oldest stamp is a plain file
StartDir(n) ==
    IF n = 1 THEN StartBdir ELSE [StartBdir EXCEPT ![Stamp(0)] = PlainFile]

\* placeholder for a backup directory that is held in bdir
Elsewhere == [c \in ChildNames |-> NoChild]

\* lines 245-253 and 172-174: main's loop calls process_pair for the next
\* pair; its trees and the backup directory of its name come into view
StartPair ==
    /\ InLockedRegion(1) /\ Running
    /\ pc \in {"idle", "return"}
    /\ pairsDone[1] < NumPairs
    /\ pairsDone' = [pairsDone EXCEPT ![1] = @ + 1]
    /\ LET j     == pairsDone[1] + 1
           name  == pair_names[j]
           saved == IF j = 1 THEN others
                    ELSE [others EXCEPT ![pair_names[j - 1]] = bdir]
       IN  /\ local_root' = PairLocal(j)
           /\ ssd_root' = PairSsd(j)
           /\ bdir' = saved[name]
           /\ others' = [saved EXCEPT ![name] = Elsewhere]
           /\ init_fs' = [local |-> PairLocal(j), ssd |-> PairSsd(j),
                          bdir |-> saved[name]]
           /\ start_fs' = [local |-> PairLocal(j), ssd |-> PairSsd(j),
                           bk |-> EmptyTree]
    /\ pc' = "purge"
    /\ todo' = {}
    /\ local_meta' = <<>> /\ ssd_meta' = <<>> /\ plan' = <<>>
    /\ ts_folder' = NoFolder
    /\ idx' = 1
    /\ failed' = {}
    /\ attempted' = <<>>
    /\ UNCHANGED <<lockFile, ipc, outcome, delete_policy, retention, dry, now,
                   pair_names, interrupted, faults, written>>

\* lines 118 and 144: datetime.now() reads a clock that moves on while the
\* invocation runs; the time that passes is added up right before each read
Tick ==
    /\ InLockedRegion(1) /\ Running /\ pc \in {"purge", "dry_check"}
    /\ now' \in {t \in Clock : \/ t.sec = now.sec /\ t.usec > now.usec
                               \/ t.sec = now.sec + 1}
    /\ UNCHANGED <<lockVars, delete_policy, retention, dry, pair_names, others,
                   fsVars, runVars, histVars>>

\* line 254: the loop over the pairs is over
MainReturn == pc = "return" /\ Running /\ LeaveBody(1, "normal")
\* an exception escaped process_pair (nothing in main catches it)
MainRaise == pc = "raised" /\ LeaveBody(1, "error")

MainInit ==
    /\ lockFile = NoLock
    /\ ipc = [i \in Invocations |-> "start"]
    /\ outcome = [i \in Invocations |-> "running"]
    /\ pairsDone = [i \in Invocations |-> 0]
    /\ delete_policy \in {"safe", "mirror"}
    /\ retention \in {0, MaxRetention}
    /\ dry \in BOOLEAN
    /\ now = [sec |-> MaxSec - 1, usec |-> 0]
    \* a pair's ssd directory has the name of the first pair's or its own
    /\ pair_names \in {f \in [1 .. NumPairs -> PairNames] :
                          \A j \in 1 .. NumPairs : f[j] \in {1, j}}
    /\ others = [n \in PairNames |-> StartDir(n)]
    /\ local_root = EmptyTree /\ ssd_root = EmptyTree
    /\ bdir = Elsewhere
    /\ local_meta = <<>> /\ ssd_meta = <<>> /\ plan = <<>>
    /\ Called("idle")

MainNext ==
    \/ AcquireLock(1)
    \/ StartPair
    \/ Tick
    \/ PurgeList
    \/ \E c \in ChildNames : PurgeChild(c)
    \/ PurgeReturn
    \/ ScanTrees
    \/ BuildDiff
    \/ DryReturn
    \/ MakeTsFolder
    \/ ForNext
    \/ Backup
    \/ BackupFault
    \/ CopyOpen
    \/ CopyWrite
    \/ CopyStat
    \/ CopyReplace
    \/ Delete
    \/ Fault
    \/ MainReturn
    \/ MainRaise
    \/ FinallyUnlink(1)

SpecMain == MainInit /\ [][MainNext]_vars


(***************************************************************************)
(* PROPERTIES.                                                             *)
(***************************************************************************)
\* the action (index in plan) that is running, or that has just ended
InAction ==
    pc \in {"backup", "copy_open", "copy_write", "copy_stat", "copy_replace",
            "delete"}
Ended == pc \in {"loop", "return"} /\ idx > 1
Current == IF InAction THEN idx ELSE IF Ended THEN idx - 1 ELSE 0
KindAt(k) == plan[k][1]
RelAt(k) == plan[k][2]
HasData(f, g) == f.exists /\ g.exists /\ f.data = g.data

\* C1: backup before mutate.  For an UPDATE_SSD, DELETE_SSD or
\* COPY_LOCAL_TO_SSD action that found a file at its SSD path: as soon as
\* that SSD file differs from what it was when the action started, the run's
\* backup folder holds the bytes it had then at the same relative path; and
\* once the action is over the backup folder holds them, unless the action
\* was given up with the SSD file untouched.
C1_BackupBeforeMutate ==
    LET k == Current IN
    (/\ k > 0
     /\ KindAt(k) \in {"UPDATE_SSD", "DELETE_SSD", "COPY_LOCAL_TO_SSD"}
     /\ start_fs.ssd[RelAt(k)].exists)
    => LET was  == start_fs.ssd[RelAt(k)]
           kept == HasData(RunFiles[RelAt(k)], was)
       IN  /\ ssd_root[RelAt(k)] # was => kept
           /\ Ended => kept \/ (k \in failed /\ ssd_root[RelAt(k)] = was)

\* an UPDATE_SSD has run without failing, the SSD file is no longer what it
\* was, and the backup folder holds what it was
C1_Witness ==
    /\ Ended /\ Current \notin failed
    /\ KindAt(Current) = "UPDATE_SSD"
    /\ start_fs.ssd[RelAt(Current)].exists
    /\ ssd_root[RelAt(Current)] # start_fs.ssd[RelAt(Current)]
    /\ HasData(RunFiles[RelAt(Current)], start_fs.ssd[RelAt(Current)])

\* C2: at most one invocation is inside the locked region at any time.
C2_MutualExclusion ==
    Cardinality({i \in Invocations : ipc[i] = "locked"}) <= 1

\* C3: when an invocation that acquired the lock ends its run, normally, by
\* an exception or by KeyboardInterrupt, no lock file is left, so that the
\* next os.open(O_EXCL) of the lock path succeeds.
C3_LockReleasedOnExit ==
    [][\A i \in Invocations :
          (ipc[i] = "finally" /\ ipc'[i] = "done") => lockFile' = NoLock]_vars

\* runs that held the lock have ended in each of the three ways, and no lock
\* file is left
C3_Witness ==
    /\ lockFile = NoLock
    /\ \E i \in Invocations : ipc[i] = "done" /\ outcome[i] = "interrupt"
    /\ \E i \in Invocations : ipc[i] = "done" /\ outcome[i] = "error"
    /\ \E i \in Invocations : ipc[i] = "done" /\ outcome[i] = "normal"

\* C4: an invocation that found the lock file never calls process_pair, and
\* ends with the error.
C4_LockedOutTouchesNothing ==
    \A i \in Invocations :
        outcome[i] = "lock_exists" =>
            pairsDone[i] = 0 /\ ipc[i] \in {"open_failed", "done"}

\* an invocation was locked out while another was processing its pairs
C4_Witness ==
    \E i, j \in Invocations :
        /\ ipc[i] = "done" /\ outcome[i] = "lock_exists"
        /\ pairsDone[j] = NumPairs

\* the actions build_diff's plan holds for a path, in plan order
ProposedFor(rel) == SelectSeq(plan, LAMBDA a : a[2] = rel)
Diffed == pc = "dry_check"

\* C5: a path in exactly one snapshot.  Only in local: the plan holds
\* COPY_LOCAL_TO_SSD for it, whatever the policy.  Only on the SSD: nothing
\* under safe, DELETE_SSD under mirror, COPY_SSD_TO_LOCAL under sync.
C5_OneSided ==
    Diffed =>
        \A rel \in Names :
            /\ (rel \in DOMAIN local_meta /\ rel \notin DOMAIN ssd_meta)
                => ProposedFor(rel) = << <<"COPY_LOCAL_TO_SSD", rel>> >>
            /\ (rel \in DOMAIN ssd_meta /\ rel \notin DOMAIN local_meta)
                => /\ delete_policy = "safe" => ProposedFor(rel) = <<>>
                   /\ delete_policy = "mirror"
                        => ProposedFor(rel) = << <<"DELETE_SSD", rel>> >>
                   /\ delete_policy = "sync"
                        => ProposedFor(rel) = << <<"COPY_SSD_TO_LOCAL", rel>> >>

\* a plan for one path only in local and one only on the SSD, under mirror
C5_Witness ==
    /\ Diffed /\ delete_policy = "mirror"
    /\ \E p, q \in Paths :
          /\ p \in DOMAIN local_meta /\ p \notin DOMAIN ssd_meta
          /\ q \in DOMAIN ssd_meta /\ q \notin DOMAIN local_meta
          /\ Len(plan) = 2

\* C6: a path in both snapshots.  UPDATE_SSD exactly when the local mtime is
\* more than the tolerance after the SSD mtime, COPY_SSD_TO_LOCAL exactly
\* when the SSD mtime is more than the tolerance after the local one, and
\* nothing otherwise, whatever the sizes; so snapshots with the same keys
\* and mtimes within the tolerance give the empty plan.
C6_BothPresent ==
    Diffed =>
        /\ \A rel \in DOMAIN local_meta \cap DOMAIN ssd_meta :
              LET lt == local_meta[rel].mtime
                  st == ssd_meta[rel].mtime
              IN  /\ lt - st > Tolerance
                        <=> ProposedFor(rel) = << <<"UPDATE_SSD", rel>> >>
                  /\ st - lt > Tolerance
                        <=> ProposedFor(rel) = << <<"COPY_SSD_TO_LOCAL", rel>> >>
                  /\ (lt - st <= Tolerance /\ st - lt <= Tolerance)
                        <=> ProposedFor(rel) = <<>>
        /\ (/\ DOMAIN local_meta = DOMAIN ssd_meta
            /\ \A rel \in DOMAIN local_meta :
                  /\ local_meta[rel].mtime - ssd_meta[rel].mtime <= Tolerance
                  /\ ssd_meta[rel].mtime - local_meta[rel].mtime <= Tolerance)
            => plan = <<>>

\* two files of different sizes whose mtimes differ by exactly the tolerance
\* draw no action, beside a file that is updated
C6_Witness ==
    /\ Diffed
    /\ \E p, q \in DOMAIN local_meta \cap DOMAIN ssd_meta :
          /\ local_meta[p].size # ssd_meta[p].size
          /\ local_meta[p].mtime = ssd_meta[p].mtime + Tolerance
          /\ ProposedFor(p) = <<>>
          /\ ProposedFor(q) = << <<"UPDATE_SSD", q>> >>

\* C7: idempotence.  After a run that executed its plan with no action
\* failing, scanning both trees again and diffing them under the same policy
\* gives the empty plan.
C7_Idempotent ==
    (pc = "return" /\ ~dry /\ failed = {})
        => build_diff(scan_tree(local_root), scan_tree(ssd_root),
                      delete_policy) = <<>>

\* safe_copy's destination tree and source tree for action k, now and when
\* the action started
DstAt(k) == IF KindAt(k) = "COPY_SSD_TO_LOCAL" THEN local_root ELSE ssd_root
StartDstAt(k) ==
    IF KindAt(k) = "COPY_SSD_TO_LOCAL" THEN start_fs.local ELSE start_fs.ssd
StartSrcAt(k) ==
    IF KindAt(k) = "COPY_SSD_TO_LOCAL" THEN start_fs.ssd ELSE start_fs.local
InSafeCopy == pc \in {"copy_open", "copy_write", "copy_stat", "copy_replace"}

\* C8: atomic write.  While safe_copy has not done its replace, interrupted
\* or not, the destination name holds exactly the file it held before (or
\* still no file); and at every moment it holds either that or the complete
\* source file.
C8_AtomicWrite ==
    LET k == Current IN
    (k > 0 /\ KindAt(k) # "DELETE_SSD")
    => LET dst == DstAt(k)[RelAt(k)]
           old == StartDstAt(k)[RelAt(k)]
           new == StartSrcAt(k)[RelAt(k)]
       IN  /\ InSafeCopy => dst = old
           /\ dst = old \/ dst = new

\* the run was interrupted with part of the temporary file written, over a
\* destination that held a file
C8_Witness ==
    /\ interrupted /\ pc = "copy_write"
    /\ DstAt(idx)[RelAt(idx)].exists
    /\ LET tmp == DstAt(idx)[TmpName(RelAt(idx))]
       IN  tmp.exists /\ Len(tmp.data) > 0
              /\ Len(tmp.data) < Len(StartSrcAt(idx)[RelAt(idx)].data)

\* C9: when purge_old_backups is over, a child of the pair's backup
\* directory is gone exactly when its name parses as a timestamp that is
\* strictly older than now minus retention_days.
C9_PurgeExact ==
    pc \in {"scan", "raised"} =>
        \A c \in ChildNames :
            init_fs.bdir[c].kind # "none" =>
                (bdir[c].kind = "none" <=> (Parses(c) /\ Older(c)))

\* C9, for directories: when purge_old_backups has returned from a backup
\* directory whose children are all directories, a child is gone exactly
\* when its name parses as a timestamp strictly older than now minus
\* retention_days; a child stamped exactly at that boundary is kept.
C9_DirectoriesExact ==
    (pc = "scan" /\ \A c \in ChildNames : init_fs.bdir[c].kind # "file") =>
        \A c \in ChildNames :
            init_fs.bdir[c].kind = "dir" =>
                (bdir[c].kind = "none"
                    <=> (Parses(c)
                         /\ (now.sec - strptime(c)) * 2 + now.usec
                                > retention * SecondsPerDay * 2))

\* C10: a dry run changes no file of the local or the SSD tree and makes no
\* backup folder; expired backup folders, purged before the dry-run check,
\* are all that can go.
C10_DryRunFrame ==
    dry =>
        /\ local_root = init_fs.local
        /\ ssd_root = init_fs.ssd
        /\ ts_folder = NoFolder
        /\ \A c \in ChildNames :
              \/ bdir[c] = init_fs.bdir[c]
              \/ /\ bdir[c].kind = "none"
                 /\ init_fs.bdir[c].kind = "dir"
                 /\ Parses(c) /\ Older(c)

\* a dry run has returned with a plan it did not execute, after purging
C10_Witness ==
    /\ dry /\ pc = "return" /\ plan # <<>>
    /\ \E c \in ChildNames : bdir[c] # init_fs.bdir[c]

\* C11: failure isolation.  The loop enters the try block of the plan's
\* actions in plan order, each once, whatever fails: when process_pair
\* returns from a run that is not dry, every action of the plan has been
\* attempted, the failed ones among them; a call in which an action failed
\* does not raise; and an invocation that ends normally has called
\* process_pair for every pair.
C11_FailureIsolation ==
    /\ attempted = [k \in 1 .. Len(attempted) |-> k]
    /\ Len(attempted) = IF InAction THEN idx ELSE idx - 1
    /\ failed \subseteq 1 .. Len(attempted)
    /\ (pc = "return" /\ ~dry) => Len(attempted) = Len(plan)
    /\ failed # {} => pc # "raised"
    /\ \A i \in Invocations : outcome[i] = "normal" => pairsDone[i] = NumPairs

\* under mirror, the backup of the first pair's first action (a DELETE_SSD)
\* failed; the first pair's second action was run all the same, and the
\* invocation went through its last pair and ended normally
C11_Witness ==
    /\ ipc[1] = "done" /\ outcome[1] = "normal"
    /\ delete_policy = "mirror" /\ ~dry
    /\ faults > 0 /\ failed = {}
    /\ Len(plan) > 1 /\ Len(attempted) = Len(plan)
    /\ ~\E w \in written : w.file.data = PairData(1, "ssd", 0)
    /\ \E w \in written : w.file.data = PairData(1, "ssd", 1)

\* C12: the plan build_diff returns holds its actions in strictly increasing
\* path order, so no path has two actions and the order of the plan is
\* fixed by the snapshots.
C12_PlanSorted ==
    Diffed =>
        \A i, j \in 1 .. Len(plan) : i < j => plan[i][2] < plan[j][2]

\* a plan with an action for every path
C12_Witness ==
    Diffed /\ Len(plan) = Cardinality(Paths) /\ Len(plan) > 1

\* C13: while and after an action for relative path p runs, every other
\* relative path of the local tree and of the SSD tree holds what it held
\* when the action started.
C13_FrameOnePath ==
    LET k == Current IN
    k > 0 =>
        \A q \in Names \ {RelAt(k)} :
            local_root[q] = start_fs.local[q] /\ ssd_root[q] = start_fs.ssd[q]

\* C14: under policy safe, a file that was only on the SSD when the pair
\* was scanned is on the SSD unchanged, and not on the local side, when
\* process_pair has returned.
C14_SafeKeepsMirrorOnly ==
    (delete_policy = "safe" /\ pc = "return") =>
        \A p \in DOMAIN ssd_meta \ DOMAIN local_meta :
            ssd_root[p] = init_fs.ssd[p] /\ ~local_root[p].exists

\* the actions that change the SSD tree
MirrorMutating == {"UPDATE_SSD", "DELETE_SSD", "COPY_LOCAL_TO_SSD"}

\* C15: the run's backup folder is made lazily: it is there only once the
\* loop has entered an action that changes the SSD tree, so a pair whose
\* plan has no such action gets none.
C15_LazyFolder ==
    ts_folder # NoFolder =>
        \E k \in 1 .. Len(attempted) : KindAt(k) \in MirrorMutating

\* C16: the entry of the run's backup folder at a relative path p changes
\* only in the backup step of an UPDATE_SSD, DELETE_SSD or
\* COPY_LOCAL_TO_SSD action for p that finds a file at p on the SSD, and
\* what it receives is that SSD file (or, when the copy fails, a part of
\* it); no other step, no COPY_SSD_TO_LOCAL and no COPY_LOCAL_TO_SSD onto
\* an absent SSD path adds anything.
C16_BackupEntries ==
    [][\A p \in Names :
          RunFiles'[p] # RunFiles[p] =>
              /\ pc = "backup" /\ p = RelAt(idx)
              /\ KindAt(idx) \in MirrorMutating
              /\ ssd_root[p].exists
              /\ RunFiles'[p] \in {ssd_root[p]} \cup PartialCopies(ssd_root[p])]_vars

\* after an UPDATE_SSD that was backed up, a COPY_LOCAL_TO_SSD onto an
\* absent SSD path has run and left no entry in the backup folder
C16_Witness ==
    /\ Ended /\ Current \notin failed
    /\ KindAt(Current) = "COPY_LOCAL_TO_SSD"
    /\ ~start_fs.ssd[RelAt(Current)].exists
    /\ ssd_root[RelAt(Current)].exists
    /\ ~RunFiles[RelAt(Current)].exists
    /\ \E q \in Names : RunFiles[q].exists

\* C17: a lock file is at the lock path from the moment an invocation has
\* acquired the lock until that invocation's own finally clause has run,
\* whatever the invocations that are locked out do.
C17_LockStaysInPlace ==
    \A i \in Invocations : ipc[i] \in {"locked", "finally"} => lockFile # NoLock

\* C18: when copy_for_backup fails in an UPDATE_SSD, DELETE_SSD or
\* COPY_LOCAL_TO_SSD action, the step that fails ends the action with both
\* trees as they were, and afterwards the SSD file of an action that failed
\* without a complete backup is what it was when the action started.
C18_BackupFailureKeepsMirror ==
    /\ [](LET k == Current IN
          (/\ k > 0 /\ k \in failed
           /\ KindAt(k) \in MirrorMutating
           /\ start_fs.ssd[RelAt(k)].exists
           /\ ~HasData(RunFiles[RelAt(k)], start_fs.ssd[RelAt(k)]))
          => ssd_root[RelAt(k)] = start_fs.ssd[RelAt(k)])
    /\ [][(pc = "backup" /\ idx \in failed')
            => /\ pc' = "loop" /\ idx' = idx + 1
               /\ ssd_root' = ssd_root /\ local_root' = local_root]_vars

\* the backup of an UPDATE_SSD failed part-way: the backup folder holds a
\* part of the SSD file, and the SSD file is what it was
C18_Witness ==
    /\ Ended /\ Current \in failed
    /\ KindAt(Current) = "UPDATE_SSD"
    /\ start_fs.ssd[RelAt(Current)].exists
    /\ RunFiles[RelAt(Current)].exists
    /\ ~HasData(RunFiles[RelAt(Current)], start_fs.ssd[RelAt(Current)])
    /\ ssd_root[RelAt(Current)] = start_fs.ssd[RelAt(Current)]

\* backup_root / n, for the current pair's name and for the others
BackupDirOf(n) ==
    IF pairsDone[1] > 0 /\ n = pair_name THEN bdir ELSE others[n]

\* C19: when the invocation has ended, every backup copy it completed is
\* in its backup folder, at its relative path, with the content it was
\* written with.
C19_BackupsKept ==
    ipc[1] = "done" =>
        \A w \in written :
            LET child == BackupDirOf(w.name)[w.folder]
            IN  child.kind = "dir" /\ child.files[w.rel] = w.file

====
